---- MODULE Spec2Model ----
(***************************************************************************)
(* Model of go-ast-chroma: the declaration locator (processGoProject, in   *)
(* its two versions allsymbols.go and go_ast_parser.go) and the qualifier  *)
(* canonicalizer (applyQualifierReplacements, allsymbols.go).              *)
(*                                                                         *)
(* Text is a sequence of one-character strings, so that slicing and        *)
(* strings.ReplaceAll are computed position by position as the Go code     *)
(* computes them.                                                          *)
(***************************************************************************)
EXTENDS Integers, Sequences, FiniteSets, TLC

(***************************************************************************)
(* Bounds of the model.                                                    *)
(***************************************************************************)
\* number of expressions in the subtree of a generated declaration node
MaxItems == 2
\* number of import names a generated file binds
MaxAliases == 2
\* number of packages packages.Load returns
MaxPkgs == 2
\* number of files in all the packages together
MaxFiles == 2
\* number of top-level declarations in all the files together
MaxDecls == 2
\* number of specs in one grouped declaration
MaxSpecs == 2
\* number of packages, files and top-level declarations of the project together
MaxProject == 4
\* number of packages, files and top-level declarations of a project made
\* for the order of the chunks (of fewer shapes of declaration)
MaxOrderProject == 5
\* length of a file on disk that was cut short after it was parsed
CutLen == 26
\* length of a file on disk that holds all that was parsed, or more
FullLen == 120

(***************************************************************************)
(* State.                                                                  *)
(***************************************************************************)
\* applyQualifierReplacements: its arguments node, info and chunkCode, its
\* locals, the loop index idx, its position cpc, and the result of the first
\* call (kept for a second call)
VARIABLES node, info, chunkCode, replacements, tempMap, finalMap,
          sortedOldQualifiers, sortedPlaceholders, idx, cpc, firstResult

canonVars == <<node, info, chunkCode, replacements, tempMap, finalMap,
               sortedOldQualifiers, sortedPlaceholders, idx, cpc, firstResult>>

\* processGoProject: the version that runs (prog), the packages that
\* packages.Load returns (pkgs), its position ppc, the result chunks and err,
\* the loop indices over packages, files, declarations and specs (pi, fi, di,
\* si) and the length fileLen of the buffer read for the current file.
\* History: spans (per chunk, the span it was cut with), reads (per file
\* gone through, what os.ReadFile gave), panicked (a slice out of range).
VARIABLES prog, pkgs, ppc, chunks, err, panicked, pi, fi, di, si, fileLen,
          spans, reads

locVars == <<prog, pkgs, ppc, chunks, err, panicked, pi, fi, di, si, fileLen,
             spans, reads>>

vars == <<canonVars, locVars>>

(***************************************************************************)
(* Strings and the string functions of the Go library the code calls.      *)
(***************************************************************************)
Dot == <<".">>

RECURSIVE Concat(_)
\* the concatenation of a sequence of strings
Concat(ss) == IF ss = <<>> THEN <<>> ELSE Head(ss) \o Concat(Tail(ss))

RECURSIVE Join(_, _)
\* strings.Join(elems, sep)
Join(elems, sep) ==
    IF elems = <<>> THEN <<>>
    ELSE IF Len(elems) = 1 THEN elems[1]
    ELSE elems[1] \o sep \o Join(Tail(elems), sep)

Digit(d) == <<"0", "1", "2", "3", "4", "5", "6", "7", "8", "9">>[d + 1]

RECURSIVE Itoa(_)
\* strconv.Itoa(i), and the %d verb of fmt.Sprintf, for i >= 0
Itoa(i) == IF i < 10 THEN <<Digit(i)>> ELSE Itoa(i \div 10) \o <<Digit(i % 10)>>

HasPrefix(s, p) == Len(s) >= Len(p) /\ SubSeq(s, 1, Len(p)) = p

\* s[lo:hi] of Go: the bytes at offsets lo .. hi-1
Slice(s, lo, hi) == SubSeq(s, lo + 1, hi)

\* strings.Contains(s, sub)
Contains(s, sub) == \E i \in 0..(Len(s) - Len(sub)) : SubSeq(s, i + 1, i + Len(sub)) = sub

RECURSIVE ReplaceAll(_, _, _)
\* strings.ReplaceAll(s, old, new) for a non-empty old: the non-overlapping
\* occurrences of old, found from the left, are each replaced by new
ReplaceAll(s, old, new) ==
    IF Len(s) < Len(old) THEN s
    ELSE IF HasPrefix(s, old)
         THEN new \o ReplaceAll(SubSeq(s, Len(old) + 1, Len(s)), old, new)
         ELSE <<Head(s)>> \o ReplaceAll(Tail(s), old, new)

\* the sequences that list every element of the set S exactly once
Perms(S) ==
    {p \in [1..Cardinality(S) -> S] : \A x \in S : \E i \in DOMAIN p : p[i] = x}

\* what sort.Slice with the comparison len(x[i]) > len(x[j]) can leave: every
\* arrangement of S in descending length; sort.Slice is not stable and the
\* slice was filled in map iteration order, so equal lengths come in any order
SortedByLenDesc(S) ==
    {p \in Perms(S) : \A i \in 1..(Len(p) - 1) : Len(p[i]) >= Len(p[i + 1])}

(***************************************************************************)
(* The qualifier canonicalizer: applyQualifierReplacements.                *)
(*                                                                         *)
(* node is the subtree of the declaration, abstracted to the sequence of   *)
(* its expressions in source order:                                        *)
(*   kind "ref"   X.Sel where info.Uses[X] is a *types.PkgName             *)
(*   kind "var"   a selector chain X.Sel(.Sel) where info.Uses[X] is any   *)
(*                other object, or nil                                     *)
(*   kind "lit"   a string literal whose content reads X.Sel               *)
(*   kind "punct" the text between expressions                             *)
(* info maps each import name of the file to pkgName.Imported().Path().    *)
(***************************************************************************)
\* the empty map
NoMap == [x \in {} |-> <<>>]

Quote == <<"\"">>

\* the source text of one expression of the node
RenderItem(it) ==
    CASE it.kind = "punct" -> it.toks[1]
      [] it.kind = "lit" -> Quote \o Join(it.toks, Dot) \o Quote
      [] OTHER -> Join(it.toks, Dot)

\* the source text of the declaration: what buffer[startOffset:endOffset] holds
Render(nd) == Concat([i \in 1..Len(nd) |-> RenderItem(nd[i])])

placeholderPrefix ==
    <<"_", "_", "G", "O", "_", "Q", "U", "A", "L", "I", "F", "I", "E", "R", "_",
      "T", "E", "M", "P", "_">>

\* placeholderPrefix + strconv.Itoa(i) + "__"
Placeholder(i) == placeholderPrefix \o Itoa(i) \o <<"_", "_">>

\* the ast.Inspect pass: alias -> full import path, for every SelectorExpr
\* whose X is an identifier that resolves to a package name spelled
\* differently from its import path
InspectNode(nd, inf) ==
    LET used == {nd[i].toks[1] : i \in {j \in 1..Len(nd) : nd[j].kind = "ref"}}
        kept == {al \in used : al \in DOMAIN inf /\ al # inf[al]}
    IN  [al \in kept |-> inf[al]]

RECURSIVE ReplaceEach(_, _, _)
\* one replacement loop: for each key of order, in order, replace key+"." by
\* map[key]+"."
ReplaceEach(text, order, map) ==
    IF order = <<>> THEN text
    ELSE ReplaceEach(ReplaceAll(text, Head(order) \o Dot, map[Head(order)] \o Dot),
                     Tail(order), map)

\* tempMap for one iteration order of the replacements map: num[alias] is
\* the value of the counter i when the loop reaches alias
TempMapOf(repl, num) == [al \in DOMAIN repl |-> Placeholder(num[al])]

\* finalMap for the same iteration order
FinalMapOf(repl, num) ==
    [ph \in {Placeholder(num[al]) : al \in DOMAIN repl} |->
        repl[CHOOSE al \in DOMAIN repl : Placeholder(num[al]) = ph]]

\* the iteration orders of a map with the keys S, as counter values
Numberings(S) ==
    {num \in [S -> 0..(Cardinality(S) - 1)] :
        \A a, b \in S : a # b => num[a] # num[b]}

\* every result applyQualifierReplacements(text, node, info) can return, the
\* map iteration order and the two sorts being free
ApplyResults(text, repl) ==
    IF DOMAIN repl = {} THEN {text}
    ELSE {ReplaceEach(ReplaceEach(text, o1, TempMapOf(repl, num)), o2, FinalMapOf(repl, num)) :
            num \in Numberings(DOMAIN repl),
            o1 \in SortedByLenDesc(DOMAIN repl),
            o2 \in SortedByLenDesc({Placeholder(n) : n \in 0..(Cardinality(DOMAIN repl) - 1)})}

(***************************************************************************)
(* Inputs of the canonicalizer.                                            *)
(***************************************************************************)
idA == <<"a">>
idAB == <<"a", "b">>
idB == <<"b">>
idUU == <<"_", "_">>
idAUU == <<"a", "_", "_">>
idDA == <<"d", "a">>
idP == <<"p">>
idF == <<"F">>
idX == <<"x">>
idFoo == <<"F", "o", "o">>
idBar == <<"B", "a", "r">>
idUse == <<"U", "s", "e">>
idOther == <<"O", "t", "h", "e", "r">>
idCompany == <<"c", "o", "m", "p", "a", "n", "y">>

\* the import names a generated file may bind: a is a prefix of ab and of
\* a__, b a suffix of ab, __ a suffix of a__ (__ and a__ are legal Go
\* identifiers, and legal import names)
AliasNames == {idA, idAB, idB, idUU, idAUU}

\* "p/" + alias, in the way of "path/filepath" for filepath
PathUnder(al) == <<"p", "/">> \o al

\* "a." + alias: an import path that holds the import name a followed by "."
PathWithDot(al) == <<"a", ".">> \o al

\* the import paths a generated file may bind an import name to: a path that
\* ends in the name, a path that holds "a." and the name itself ("fmt")
PathsOf(al) == {PathUnder(al), PathWithDot(al), al}

\* the resolved import names of a generated file
GenInfos ==
    UNION {{inf \in [S -> UNION {PathsOf(al) : al \in S}] :
                \A al \in S : inf[al] \in PathsOf(al)} :
             S \in {T \in SUBSET AliasNames : Cardinality(T) \in 1..MaxAliases}}

Ref(al, sel) == [kind |-> "ref", toks |-> <<al, sel>>]
Var(toks) == [kind |-> "var", toks |-> toks]
Lit(toks) == [kind |-> "lit", toks |-> toks]
Punct(text) == [kind |-> "punct", toks |-> <<text>>]

\* the expressions a generated declaration is made of: a reference through
\* each import name; da.F and a.F on variables da and a (a local a shadows
\* the import name a); p.a.F, where a is a member; the string literal "a.F";
\* __GO_QUALIFIER_TEMP_0__.F on a variable of that name (a legal identifier)
ItemsOf(inf) ==
    {Ref(al, idF) : al \in DOMAIN inf}
    \cup {Var(<<idDA, idF>>), Var(<<idA, idF>>), Var(<<idP, idA, idF>>), Lit(<<idA, idF>>),
          Var(<<Placeholder(0), idF>>)}

\* the expressions s as statements: each followed by ";"
Statements(s) ==
    [i \in 1..(2 * Len(s)) |-> IF i % 2 = 1 THEN s[(i + 1) \div 2] ELSE Punct(<<";">>)]

NodesOf(inf) ==
    UNION {{Statements(s) : s \in [1..n -> ItemsOf(inf)]} : n \in 0..MaxItems}

\* ab.Foo(); a.Bar()  with  a -> pkg/a, ab -> pkg/ab
ExampleInfo1 ==
    (idA :> <<"p", "k", "g", "/", "a">>) @@ (idAB :> <<"p", "k", "g", "/", "a", "b">>)
ExampleNode1 ==
    <<Ref(idAB, idFoo), Punct(<<"(", ")", ";", " ">>), Ref(idA, idBar), Punct(<<"(", ")">>)>>
ExampleText1 ==
    <<"a", "b", ".", "F", "o", "o", "(", ")", ";", " ", "a", ".", "B", "a", "r", "(", ")">>
ExampleResult1 ==
    <<"p", "k", "g", "/", "a", "b", ".", "F", "o", "o", "(", ")", ";", " ",
      "p", "k", "g", "/", "a", ".", "B", "a", "r", "(", ")">>

\* x.Use(company.x.Other)  with  x -> company/x
ExampleInfo2 == (idX :> (idCompany \o <<"/">> \o idX))
ExampleNode2 ==
    <<Ref(idX, idUse), Punct(<<"(">>), Var(<<idCompany, idX, idOther>>), Punct(<<")">>)>>
ExampleResult2 ==
    idCompany \o <<"/">> \o idX \o Dot \o idUse \o <<"(">>
        \o idCompany \o Dot \o idX \o Dot \o idOther \o <<")">>

CanonInit ==
    /\ \E inf \in GenInfos \cup {ExampleInfo1, ExampleInfo2} :
          /\ info = inf
          /\ node \in IF inf = ExampleInfo1 THEN {ExampleNode1}
                      ELSE IF inf = ExampleInfo2 THEN {ExampleNode2}
                      ELSE NodesOf(inf)
    /\ chunkCode = Render(node)
    /\ replacements = NoMap
    /\ tempMap = NoMap
    /\ finalMap = NoMap
    /\ sortedOldQualifiers = <<>>
    /\ sortedPlaceholders = <<>>
    /\ idx = 0
    /\ cpc = "inspect"
    /\ firstResult = <<>>

\* allsymbols.go 259-285: collect the replacements; return the chunk as it
\* is when there are none. (node and info are never nil here: every caller
\* passes a declaration it has just type-asserted and the TypesInfo that
\* line 85 found non-nil.)
Inspect ==
    /\ cpc = "inspect"
    /\ replacements' = InspectNode(node, info)
    /\ IF DOMAIN replacements' = {}
       THEN cpc' = "done" /\ firstResult' = chunkCode
       ELSE cpc' = "setup" /\ UNCHANGED firstResult
    /\ UNCHANGED <<locVars, node, info, chunkCode, tempMap, finalMap, sortedOldQualifiers,
                   sortedPlaceholders, idx>>

\* allsymbols.go 289-301: one placeholder per alias, numbered in map
\* iteration order
SetupPlaceholders ==
    /\ cpc = "setup"
    /\ \E num \in Numberings(DOMAIN replacements) :
          /\ tempMap' = TempMapOf(replacements, num)
          /\ finalMap' = FinalMapOf(replacements, num)
    /\ cpc' = "sort1"
    /\ UNCHANGED <<locVars, node, info, chunkCode, replacements, sortedOldQualifiers,
                   sortedPlaceholders, idx, firstResult>>

\* allsymbols.go 306-312: the aliases in descending length
SortQualifiers ==
    /\ cpc = "sort1"
    /\ sortedOldQualifiers' \in SortedByLenDesc(DOMAIN tempMap)
    /\ idx' = 1
    /\ cpc' = "pass1"
    /\ UNCHANGED <<locVars, node, info, chunkCode, replacements, tempMap, finalMap,
                   sortedPlaceholders, firstResult>>

\* allsymbols.go 315-320: one iteration of the first pass
Pass1 ==
    /\ cpc = "pass1"
    /\ idx <= Len(sortedOldQualifiers)
    /\ LET oldQualifier == sortedOldQualifiers[idx]
           placeholder == tempMap[oldQualifier]
       IN  chunkCode' = ReplaceAll(chunkCode, oldQualifier \o Dot, placeholder \o Dot)
    /\ idx' = idx + 1
    /\ UNCHANGED <<locVars, node, info, replacements, tempMap, finalMap, sortedOldQualifiers,
                   sortedPlaceholders, cpc, firstResult>>

\* allsymbols.go 325-331: the placeholders in descending length
SortPlaceholders ==
    /\ cpc = "pass1"
    /\ idx > Len(sortedOldQualifiers)
    /\ sortedPlaceholders' \in SortedByLenDesc(DOMAIN finalMap)
    /\ idx' = 1
    /\ cpc' = "pass2"
    /\ UNCHANGED <<locVars, node, info, chunkCode, replacements, tempMap, finalMap,
                   sortedOldQualifiers, firstResult>>

\* allsymbols.go 334-338: one iteration of the second pass
Pass2 ==
    /\ cpc = "pass2"
    /\ idx <= Len(sortedPlaceholders)
    /\ LET placeholder == sortedPlaceholders[idx]
           fullPath == finalMap[placeholder]
       IN  chunkCode' = ReplaceAll(chunkCode, placeholder \o Dot, fullPath \o Dot)
    /\ idx' = idx + 1
    /\ UNCHANGED <<locVars, node, info, replacements, tempMap, finalMap, sortedOldQualifiers,
                   sortedPlaceholders, cpc, firstResult>>

\* allsymbols.go 340: return chunkCode
ReturnChunk ==
    /\ cpc = "pass2"
    /\ idx > Len(sortedPlaceholders)
    /\ cpc' = "done"
    /\ firstResult' = chunkCode
    /\ UNCHANGED <<locVars, node, info, chunkCode, replacements, tempMap, finalMap,
                   sortedOldQualifiers, sortedPlaceholders, idx>>

\* a second call, applyQualifierReplacements(result, node, info), on the
\* result of the first
Reapply ==
    /\ cpc = "done"
    /\ chunkCode' \in ApplyResults(chunkCode, InspectNode(node, info))
    /\ cpc' = "done2"
    /\ UNCHANGED <<locVars, node, info, replacements, tempMap, finalMap, sortedOldQualifiers,
                   sortedPlaceholders, idx, firstResult>>

CanonNext ==
    \/ Inspect
    \/ SetupPlaceholders
    \/ SortQualifiers
    \/ Pass1
    \/ SortPlaceholders
    \/ Pass2
    \/ ReturnChunk
    \/ Reapply


(***************************************************************************)
(* The rewrite contract of the canonicalizer, and the claims about it.     *)
(***************************************************************************)
\* what the contract asks of one expression: a reference through an import
\* name reads canonicalPath.Member, anything else is left as it is
ExpectedItem(it, inf) ==
    IF it.kind = "ref" THEN inf[it.toks[1]] \o Dot \o Join(Tail(it.toks), Dot)
    ELSE RenderItem(it)

Expected(nd, inf) == Concat([i \in 1..Len(nd) |-> ExpectedItem(nd[i], inf)])

\* the first call has returned
Returned == cpc = "done"

\* it is a reference through an alias of the Alias Map
MappedRef(it) == it.kind = "ref" /\ it.toks[1] \in DOMAIN replacements

\* the declaration holds nothing but references through aliases of the map
OnlyMappedRefs ==
    \A i \in 1..Len(node) : MappedRef(node[i]) \/ node[i].kind = "punct"

\* one alias of the map is a substring of another
AliasInsideAlias ==
    \E a, b \in DOMAIN replacements : a # b /\ Contains(b, a)

\* the canonical path of one alias holds another alias of the map
PathHoldsAlias ==
    \E a, b \in DOMAIN replacements : a # b /\ Contains(replacements[a], b)

\* it is a chain base.alias.Member whose base is no import name
MemberChain(it) ==
    /\ it.kind = "var"
    /\ Len(it.toks) = 3
    /\ it.toks[1] \notin DOMAIN info
    /\ it.toks[2] \in DOMAIN replacements

\* it reads alias.Member, or xalias.Member, without being a reference through
\* the import name: a variable, or the content of a string literal
LookAlike(it) == it.kind \in {"var", "lit"} /\ Len(it.toks) = 2

\* C1: when one alias is a substring of another, every alias-qualified
\* reference is rewritten to its own canonical path (ab.Foo(); a.Bar() becomes
\* pkg/ab.Foo(); pkg/a.Bar())
C1_SubstringAliases ==
    (Returned /\ OnlyMappedRefs /\ AliasInsideAlias) => chunkCode = Expected(node, info)

\* C2: an alias followed by "." that is the member part of a longer selector
\* chain is not rewritten (x.Use(company.x.Other) becomes
\* company/x.Use(company.x.Other))
C2_MemberOfChainUntouched ==
    (/\ Returned
     /\ Cardinality(DOMAIN replacements) = 1
     /\ \A i \in 1..Len(node) :
           MappedRef(node[i]) \/ node[i].kind = "punct" \/ MemberChain(node[i])
     /\ \E i \in 1..Len(node) : MemberChain(node[i]))
    => chunkCode = Expected(node, info)

\* C3: a second application, with the same node and index, to the result of
\* the first returns that result unchanged
C3_Idempotent == cpc = "done2" => chunkCode = firstResult

\* C4: when the canonical path of one alias holds another alias of the map,
\* every alias-qualified reference still ends up as canonicalPath.Member, in
\* every processing order
C4_NonCascading ==
    (Returned /\ OnlyMappedRefs /\ PathHoldsAlias) => chunkCode = Expected(node, info)

\* C5: text that reads alias. without being a reference through the import
\* name (the tail of a longer identifier, a variable of the alias's name, a
\* string literal) is left unchanged
C5_OnlyAliasReferencesChange ==
    (/\ Returned
     /\ Cardinality(DOMAIN replacements) = 1
     /\ \A i \in 1..Len(node) :
           MappedRef(node[i]) \/ node[i].kind = "punct" \/ LookAlike(node[i])
     /\ \E i \in 1..Len(node) : LookAlike(node[i]))
    => chunkCode = Expected(node, info)

RECURSIVE Count(_, _)
\* the number of occurrences of old that ReplaceAll(s, old, _) replaces
Count(s, old) ==
    IF Len(s) < Len(old) THEN 0
    ELSE IF HasPrefix(s, old) THEN 1 + Count(SubSeq(s, Len(old) + 1, Len(s)), old)
    ELSE Count(Tail(s), old)

\* the chunk text after the first k iterations of the first pass
Pass1Text(k) == ReplaceEach(Render(node), SubSeq(sortedOldQualifiers, 1, k), tempMap)

\* the number of positions at which the first pass writes the placeholder of
\* the k-th alias
Pass1Writes(k) == Count(Pass1Text(k - 1), sortedOldQualifiers[k] \o Dot)

\* the first pass is under way, or over
InPasses == cpc \in {"pass1", "pass2"}

\* distinct aliases have distinct placeholders
DistinctPlaceholders ==
    \A a, b \in DOMAIN tempMap : a # b => tempMap[a] # tempMap[b]

\* no placeholder followed by "." is in the chunk text the call was given
NoPlaceholderInSource ==
    \A ph \in DOMAIN finalMap : ~Contains(Render(node), ph \o Dot)

\* no alias that the first pass has still to replace matches, with its ".",
\* inside a placeholder the pass has written
NoPartialMatch ==
    cpc = "pass1" =>
        \A k \in 1..(idx - 1) : \A j \in idx..Len(sortedOldQualifiers) :
            LET written == tempMap[sortedOldQualifiers[k]] \o Dot
                remaining == sortedOldQualifiers[j] \o Dot
            IN  ~(Contains(chunkCode, written) /\ Contains(written, remaining))

\* when the second pass starts, each placeholder stands at exactly the
\* positions the first pass wrote it to
Pass2FindsPass1 ==
    (cpc = "pass2" /\ idx = 1) =>
        \A k \in 1..Len(sortedOldQualifiers) :
            Count(chunkCode, tempMap[sortedOldQualifiers[k]] \o Dot) = Pass1Writes(k)

\* C13: every alias has a placeholder of its own, no placeholder followed by
\* "." is in the chunk text before the first pass, none is matched in part by
\* an alias the first pass has still to replace, and so the second pass
\* replaces exactly the positions the first pass wrote
C13_PlaceholdersCollisionFree ==
    InPasses =>
        /\ DistinctPlaceholders
        /\ NoPlaceholderInSource
        /\ NoPartialMatch
        /\ Pass2FindsPass1

\* the results the call can return for the text, node and index it was given
PossibleResults == ApplyResults(Render(node), InspectNode(node, info))

\* C14: for a fixed text, node and symbol index the call returns the same
\* text for every iteration order of the replacements map (every numbering of
\* the placeholders) and every order the two sorts leave among aliases, or
\* placeholders, of equal length
C14_Deterministic ==
    Returned => \A other \in PossibleResults : other = chunkCode

(***************************************************************************)
(* The declaration locator: processGoProject.                              *)
(*                                                                         *)
(* The front end (packages.Load, go/parser, go/types, token.FileSet) is    *)
(* the environment: pkgs is what it hands over.  A file is the text the    *)
(* parser saw; the bytes os.ReadFile gives later are that text cut to, or  *)
(* extended to, fileLen bytes.                                             *)
(***************************************************************************)
Nil == <<"n", "i", "l">>

\* fset.Position(p).Line for the offset off of the parsed text: one more
\* than the number of line ends before it
RECURSIVE LineOf(_, _)
LineOf(text, off) ==
    IF off = 0 \/ text = <<>> THEN 1
    ELSE LineOf(Tail(text), off - 1) + (IF Head(text) = "\n" THEN 1 ELSE 0)

\* a span check without the comparison against the buffer length; C6 does not
\* hold of it
InvalidSpanNoUpper(startOffset, endOffset, bufLen) ==
    startOffset < 0 \/ startOffset > endOffset

\* the span check of allsymbols.go 117 and 164 and of go_ast_parser.go 115
InvalidSpan(startOffset, endOffset, bufLen) ==
    startOffset < 0 \/ endOffset > bufLen \/ startOffset > endOffset

\* getTypeString: the resolved type's String() when info.TypeOf knows the
\* expression, else a reconstruction from its shape (the shapes the
\* declarations of this model use)
RECURSIVE getTypeString(_)
getTypeString(expr) ==
    IF expr.tv # Nil THEN expr.tv
    ELSE CASE expr.tag = "ident" -> expr.name
           [] expr.tag = "star" -> <<"*">> \o getTypeString(expr.x)
           [] expr.tag = "interface" -> <<"i", "n", "t", "e", "r", "f", "a", "c", "e", "{", "}">>
           [] OTHER -> expr.printed

\* "name type" for every name of every field, or the bare type of a field
\* without names
RECURSIVE FieldStrings(_)
FieldStrings(fields) ==
    IF fields = <<>> THEN <<>>
    ELSE LET field == Head(fields)
             typeStr == getTypeString(field.type)
         IN  (IF field.names = <<>> THEN <<typeStr>>
              ELSE [i \in 1..Len(field.names) |-> field.names[i] \o <<" ">> \o typeStr])
             \o FieldStrings(Tail(fields))

\* getSignature
getSignature(ft) ==
    LET params == FieldStrings(ft.params)
        paramStr == <<"(">> \o Join(params, <<",", " ">>) \o <<")">>
        results == FieldStrings(ft.results)
        resultStr ==
            IF Len(results) = 0 THEN <<>>
            ELSE IF Len(results) = 1 /\ ft.results[1].names = <<>>
                 THEN <<" ">> \o results[1]
                 ELSE <<" ", "(">> \o Join(results, <<",", " ">>) \o <<")">>
    IN  paramStr \o resultStr

\* fmt.Sprintf("%s:%d-%d-%s", filePath, startLine, endLine, name)
ChunkID(filePath, startLine, endLine, name) ==
    filePath \o <<":">> \o Itoa(startLine) \o <<"-">> \o Itoa(endLine) \o <<"-">> \o name

\* fmt.Sprintf("%s:%d-%d", filePath, startLine, endLine)
ChunkIDNoName(filePath, startLine, endLine) ==
    filePath \o <<":">> \o Itoa(startLine) \o <<"-">> \o Itoa(endLine)

\* the replacement loop written out in go_ast_parser.go: one pass, alias to
\* full path, in descending alias length
InlineResults(text, repl) ==
    {ReplaceEach(text, o, repl) : o \in SortedByLenDesc(DOMAIN repl)}

(***************************************************************************)
(* The declarations the front end hands over.                              *)
(***************************************************************************)
kwFunc == <<"f", "u", "n", "c">>
kwType == <<"t", "y", "p", "e">>
kwVar == <<"v", "a", "r">>
kwConst == <<"c", "o", "n", "s", "t">>
kwImport == <<"i", "m", "p", "o", "r", "t">>
strInt == <<"i", "n", "t">>
strError == <<"e", "r", "r", "o", "r">>
strStruct == <<"s", "t", "r", "u", "c", "t", "{", "}">>
strInterface == <<"i", "n", "t", "e", "r", "f", "a", "c", "e", "{", "}">>
strFunction == <<"f", "u", "n", "c", "t", "i", "o", "n">>
strMethod == <<"m", "e", "t", "h", "o", "d">>
strTypeDecl == <<"t", "y", "p", "e", "_", "d", "e", "c", "l", "a", "r", "a", "t", "i", "o", "n">>
strValueDecl == <<"v", "a", "l", "u", "e", "_", "d", "e", "c", "l", "a", "r", "a", "t", "i", "o", "n">>
strAliasOrBasic == <<"a", "l", "i", "a", "s", "_", "o", "r", "_", "b", "a", "s", "i", "c">>
catStruct == <<"s", "t", "r", "u", "c", "t">>
catInterface == <<"i", "n", "t", "e", "r", "f", "a", "c", "e">>

\* no expression: valueSpec.Type == nil
NoExpr == [tag |-> "none", tv |-> Nil]

Ident(name, tv) == [tag |-> "ident", name |-> name, tv |-> tv]

\* the receiver T, which the type checker resolves to a named type of the
\* package the declaration is in (Placed puts the package path in front)
RecvT == Ident(<<"T">>, <<"T">>)

\* the receiver *U, for which the type checker recorded no type
RecvPtrU == [tag |-> "star", x |-> Ident(<<"U">>, Nil), tv |-> Nil]

RecvSrc(recv) ==
    IF recv = <<>> THEN <<>>
    ELSE IF recv[1].tag = "star" THEN <<"(", "*">> \o recv[1].x.name \o <<")">>
    ELSE <<"(">> \o recv[1].name \o <<")">>

\* func M(){}, func(T) M(){}, func(*U) M(){} and
\* func N(x int) error{ a.F() } on three lines
FuncShapes ==
    {[kind |-> "func", name |-> <<"M">>, recv |-> r,
      ftype |-> [params |-> <<>>, results |-> <<>>],
      sigSrc |-> <<"(", ")">>, body |-> <<"{", "}">>, node |-> <<>>] :
        r \in {<<>>, <<RecvT>>, <<RecvPtrU>>}}
    \cup
    {[kind |-> "func", name |-> <<"N">>, recv |-> <<>>,
      ftype |-> [params |-> <<[names |-> <<idX>>, type |-> Ident(strInt, strInt)]>>,
                 results |-> <<[names |-> <<>>, type |-> Ident(strError, strError)]>>],
      sigSrc |-> <<"(", "x", " ", "i", "n", "t", ")", " ", "e", "r", "r", "o", "r">>,
      body |-> <<"{", "\n">> \o idA \o Dot \o idF \o <<"(", ")", "\n", "}">>,
      node |-> <<Ref(idA, idF)>>]}

FuncSrc(d) == kwFunc \o RecvSrc(d.recv) \o <<" ">> \o d.name \o d.sigSrc \o d.body

\* A struct{}, B interface{}, C int, A struct{}, ...
TypeSpecShape(i) ==
    CASE i % 3 = 1 -> [kind |-> "type", name |-> <<"A">>,
                       type |-> [tag |-> "struct", tv |-> strStruct, printed |-> strStruct],
                       node |-> <<>>, src |-> <<"A", " ">> \o strStruct]
      [] i % 3 = 2 -> [kind |-> "type", name |-> <<"B">>,
                       type |-> [tag |-> "interface", tv |-> strInterface],
                       node |-> <<>>, src |-> <<"B", " ">> \o strInterface]
      [] OTHER -> [kind |-> "type", name |-> <<"C">>,
                   type |-> Ident(strInt, strInt),
                   node |-> <<>>, src |-> <<"C", " ">> \o strInt]

\* _ = a.F : a blank variable, its type inferred from the initializer
BlankSpecShape ==
    [kind |-> "value", names |-> <<<<"_">>>>, type |-> NoExpr,
     values |-> <<[tv |-> strInt]>>, node |-> <<Ref(idA, idF)>>,
     src |-> <<"_", " ", "=", " ">> \o idA \o Dot \o idF]

\* x, y int = 1, 2   and then   b   (a constant that repeats the line above)
ConstSpecShape(i) ==
    IF i = 1
    THEN [kind |-> "value", names |-> <<idX, <<"y">>>>, type |-> Ident(strInt, strInt),
          values |-> <<[tv |-> strInt], [tv |-> strInt]>>, node |-> <<>>,
          src |-> <<"x", ",", " ", "y", " ", "i", "n", "t", " ", "=", " ", "1", ",", " ", "2">>]
    ELSE [kind |-> "value", names |-> <<idB>>, type |-> NoExpr,
          values |-> <<>>, node |-> <<>>, src |-> idB]

\* import a "p/a"
ImportSpecShape ==
    [kind |-> "import", name |-> idA, path |-> PathUnder(idA),
     src |-> idA \o <<" ">> \o Quote \o PathUnder(idA) \o Quote]

GenShapes ==
    {[kind |-> "gen", tok |-> kwImport, specs |-> <<ImportSpecShape>>]}
    \cup {[kind |-> "gen", tok |-> kwType, specs |-> [i \in 1..n |-> TypeSpecShape(i)]] :
            n \in 1..MaxSpecs}
    \cup {[kind |-> "gen", tok |-> kwVar, specs |-> [i \in 1..n |-> BlankSpecShape]] :
            n \in 1..MaxSpecs}
    \cup {[kind |-> "gen", tok |-> kwConst, specs |-> [i \in 1..n |-> ConstSpecShape(i)]] :
            n \in 1..MaxSpecs}

\* tok ( spec sep spec ... )
GenSrc(d, sep) ==
    d.tok \o <<"(">> \o Join([i \in 1..Len(d.specs) |-> d.specs[i].src], sep) \o <<")">>

\* the offset of the i-th spec of d, d starting at pos
RECURSIVE SpecPos(_, _, _)
SpecPos(d, pos, i) ==
    IF i = 1 THEN pos + Len(d.tok) + 1
    ELSE SpecPos(d, pos, i - 1) + Len(d.specs[i - 1].src) + 1

\* the declaration of shape d as the parser places it at offset pos in a
\* file of package pkgPath: Pos() and End() of the declaration and of each
\* spec, as offsets; a resolved receiver type is named pkgPath.T
Placed(d, pos, sep, pkgPath) ==
    IF d.kind = "func"
    THEN [d EXCEPT !.recv = [i \in 1..Len(d.recv) |->
                                IF d.recv[i].tv = Nil THEN d.recv[i]
                                ELSE [d.recv[i] EXCEPT !.tv = pkgPath \o Dot \o d.recv[i].name]]]
         @@ [pos |-> pos, end |-> pos + Len(FuncSrc(d))]
    ELSE [kind |-> "gen", tok |-> d.tok, pos |-> pos, end |-> pos + Len(GenSrc(d, sep)),
          specs |-> [i \in 1..Len(d.specs) |->
                        d.specs[i] @@ [pos |-> SpecPos(d, pos, i),
                                       end |-> SpecPos(d, pos, i) + Len(d.specs[i].src)]]]

DeclSrc(d, sep) == IF d.kind = "func" THEN FuncSrc(d) ELSE GenSrc(d, sep)

(***************************************************************************)
(* The projects packages.Load hands over.                                  *)
(***************************************************************************)
\* what separates the declarations of a file and the specs of a group
Separators == {<<";">>, <<"\n">>}

DeclShapes == FuncShapes \cup GenShapes

RECURSIVE SumSeq(_)
SumSeq(s) == IF s = <<>> THEN 0 ELSE Head(s) + SumSeq(Tail(s))

\* the outline of a package: one without type information, syntax trees or
\* file set, or the number of declarations of each of its files
PkgOutlines ==
    {[ok |-> FALSE, counts |-> <<>>]}
    \cup {[ok |-> TRUE, counts |-> c] :
            c \in {c \in UNION {[1..k -> 0..MaxDecls] : k \in 0..MaxFiles} :
                      /\ SumSeq(c) <= MaxDecls
                      /\ 1 + Len(c) + SumSeq(c) <= MaxProject}}

NumFiles(outline) == SumSeq([p \in 1..Len(outline) |-> Len(outline[p].counts)])

NumDecls(outline) == SumSeq([p \in 1..Len(outline) |-> SumSeq(outline[p].counts)])

Outlines ==
    {outline \in UNION {[1..n -> PkgOutlines] : n \in 0..MaxPkgs} :
        /\ NumFiles(outline) <= MaxFiles
        /\ NumDecls(outline) <= MaxDecls
        /\ Len(outline) + NumFiles(outline) + NumDecls(outline) <= MaxProject}

\* the text and the syntax tree of a file with declarations of the given
\* shapes, one after the other
RECURSIVE Parsed(_, _, _, _)
Parsed(shapes, sep, pkgPath, acc) ==
    IF shapes = <<>> THEN acc
    ELSE LET d == Head(shapes)
             pos == Len(acc.text) + Len(sep)
         IN  Parsed(Tail(shapes), sep, pkgPath,
                    [text |-> acc.text \o sep \o DeclSrc(d, sep),
                     decls |-> Append(acc.decls, Placed(d, pos, sep, pkgPath))])

IsImport(d) == d.kind = "gen" /\ d.tok = kwImport

\* the package names the type checker resolves in a file: those it imports
FileInfo(decls) ==
    IF \E i \in 1..Len(decls) : IsImport(decls[i])
    THEN ImportSpecShape.name :> ImportSpecShape.path
    ELSE NoMap

\* the fileNo-th file of the project: "package <name>", then its declarations
SourceFile(fileNo, sep, shapes, pkgName, pkgPath) ==
    LET header == <<"p", "a", "c", "k", "a", "g", "e", " ">> \o pkgName
        parsed == Parsed(shapes, sep, pkgPath, [text |-> header, decls |-> <<>>])
    IN  [path |-> <<"f">> \o Itoa(fileNo) \o <<".", "g", "o">>,
         sep |-> sep, text |-> parsed.text, decls |-> parsed.decls,
         info |-> FileInfo(parsed.decls)]

FilesBefore(outline, p) == SumSeq([q \in 1..(p - 1) |-> Len(outline[q].counts)])

DeclsBefore(outline, p, f) ==
    SumSeq([q \in 1..(p - 1) |-> SumSeq(outline[q].counts)])
    + SumSeq([g \in 1..(f - 1) |-> outline[p].counts[g]])

\* the packages of the given outline, the k-th declaration of the project
\* having the shape shapes[k], the k-th file the separator seps[k]
Project(outline, shapes, seps) ==
    [p \in 1..Len(outline) |->
        LET pkgName == <<"p">> \o Itoa(p)
            pkgPath == <<"m", "/", "p">> \o Itoa(p)
            first == FilesBefore(outline, p)
        IN  [ok |-> outline[p].ok, name |-> pkgName, path |-> pkgPath,
             files |-> [f \in 1..Len(outline[p].counts) |->
                          SourceFile(first + f, seps[first + f],
                                     [k \in 1..outline[p].counts[f] |->
                                         shapes[DeclsBefore(outline, p, f) + k]],
                                     pkgName, pkgPath)]]]

\* Go has the import declarations of a file before its other declarations
ImportsFirst(project) ==
    \A p \in 1..Len(project) : \A f \in 1..Len(project[p].files) :
        LET decls == project[p].files[f].decls
        IN  \A i \in 1..Len(decls) : \A j \in 1..(i - 1) :
                IsImport(decls[i]) => IsImport(decls[j])

Projects ==
    {project \in
        UNION {{Project(outline, shapes, seps) :
                    shapes \in [1..NumDecls(outline) -> DeclShapes],
                    seps \in [1..NumFiles(outline) -> Separators]} :
                outline \in Outlines} :
        ImportsFirst(project)}

\* The projects for the order of the chunks: larger, so that two files each
\* have declarations, of fewer shapes: the functions M and N, the import
\* declaration and the type declarations.
OrderShapes ==
    {d \in FuncShapes : d.recv = <<>>}
    \cup {d \in GenShapes : d.tok \in {kwImport, kwType}}

OrderPkgOutlines ==
    {[ok |-> FALSE, counts |-> <<>>]}
    \cup {[ok |-> TRUE, counts |-> c] :
            c \in {c \in UNION {[1..k -> 0..MaxDecls] : k \in 0..MaxFiles} :
                      /\ SumSeq(c) <= MaxDecls
                      /\ 1 + Len(c) + SumSeq(c) <= MaxOrderProject}}

OrderOutlines ==
    {outline \in UNION {[1..n -> OrderPkgOutlines] : n \in 0..MaxPkgs} :
        /\ NumFiles(outline) <= MaxFiles
        /\ NumDecls(outline) <= MaxDecls
        /\ Len(outline) + NumFiles(outline) + NumDecls(outline) <= MaxOrderProject}

OrderProjects ==
    {project \in
        UNION {{Project(outline, shapes, seps) :
                    shapes \in [1..NumDecls(outline) -> OrderShapes],
                    seps \in [1..NumFiles(outline) -> Separators]} :
                outline \in OrderOutlines} :
        ImportsFirst(project)}

(***************************************************************************)
(* The state of processGoProject and its steps.                            *)
(***************************************************************************)
LocInit ==
    /\ prog \in {"allsymbols", "go_ast_parser"}
    /\ pkgs \in Projects
    /\ ppc = "load"
    /\ chunks = <<>>
    /\ err = Nil
    /\ panicked = FALSE
    /\ pi = 0
    /\ fi = 0
    /\ di = 0
    /\ si = 0
    /\ fileLen = 0
    /\ spans = <<>>
    /\ reads = <<>>

\* processGoProject called on a project made for the order of the chunks
OrderInit ==
    /\ prog \in {"allsymbols", "go_ast_parser"}
    /\ pkgs \in OrderProjects
    /\ ppc = "load"
    /\ chunks = <<>>
    /\ err = Nil
    /\ panicked = FALSE
    /\ pi = 0
    /\ fi = 0
    /\ di = 0
    /\ si = 0
    /\ fileLen = 0
    /\ spans = <<>>
    /\ reads = <<>>

\* the canonicalizer at rest, while the locator runs
CanonIdle ==
    /\ node = <<>>
    /\ info = NoMap
    /\ chunkCode = <<>>
    /\ replacements = NoMap
    /\ tempMap = NoMap
    /\ finalMap = NoMap
    /\ sortedOldQualifiers = <<>>
    /\ sortedPlaceholders = <<>>
    /\ idx = 0
    /\ cpc = "idle"
    /\ firstResult = <<>>

\* the locator at rest, while the canonicalizer runs alone
LocIdle ==
    /\ prog = "allsymbols"
    /\ pkgs = <<>>
    /\ ppc = "idle"
    /\ chunks = <<>>
    /\ err = Nil
    /\ panicked = FALSE
    /\ pi = 0
    /\ fi = 0
    /\ di = 0
    /\ si = 0
    /\ fileLen = 0
    /\ spans = <<>>
    /\ reads = <<>>

\* metadata of a function or method: allsymbols.go 104-139,
\* go_ast_parser.go 156-171
FuncMetadata(filePath, packageName, funcDecl, startLine, endLine) ==
    LET common ==
            ("file_path" :> filePath) @@ ("package_name" :> packageName)
            @@ ("start_line" :> startLine) @@ ("end_line" :> endLine)
            @@ ("signature" :> getSignature(funcDecl.ftype))
    IN  IF funcDecl.recv # <<>>
        THEN LET receiverType == getTypeString(funcDecl.recv[1])
             IN  common @@ ("entity_type" :> strMethod)
                        @@ ("receiver_type" :> receiverType)
                        @@ ("entity_name" :> receiverType \o Dot \o funcDecl.name)
        ELSE common @@ ("entity_type" :> strFunction)
                    @@ ("entity_name" :> funcDecl.name)

\* metadata of a type spec: allsymbols.go 172-195
TypeMetadata(filePath, packageName, tok, typeSpec, startLine, endLine) ==
    ("file_path" :> filePath) @@ ("package_name" :> packageName)
    @@ ("start_line" :> startLine) @@ ("end_line" :> endLine)
    @@ ("declaration_kind" :> tok)
    @@ ("entity_type" :> strTypeDecl)
    @@ ("entity_name" :> typeSpec.name)
    @@ ("type_definition" :> getTypeString(typeSpec.type))
    @@ ("type_category" :>
            IF typeSpec.type.tag = "struct" THEN catStruct
            ELSE IF typeSpec.type.tag = "interface" THEN catInterface
            ELSE strAliasOrBasic)

\* metadata of a value spec: allsymbols.go 172-178, 206-222
ValueMetadata(filePath, packageName, tok, valueSpec, startLine, endLine) ==
    LET common ==
            ("file_path" :> filePath) @@ ("package_name" :> packageName)
            @@ ("start_line" :> startLine) @@ ("end_line" :> endLine)
            @@ ("declaration_kind" :> tok)
            @@ ("entity_type" :> strValueDecl)
            @@ ("entity_name" :> Join(valueSpec.names, <<",", " ">>))
    IN  IF valueSpec.type.tag # "none"
        THEN common @@ ("declared_type" :> getTypeString(valueSpec.type))
        ELSE IF Len(valueSpec.values) > 0 /\ valueSpec.values[1].tv # Nil
             THEN common @@ ("inferred_type" :> valueSpec.values[1].tv)
             ELSE common

\* the loop variables of the source: the package, the syntax tree of the file,
\* its path, the declaration
pkg == pkgs[pi]

file == pkg.files[fi]

filePath == file.path

decl == file.decls[di]

\* fileContentBytes: the n bytes read from disk for a file parsed as text
Buffer(text, n) == [i \in 1..n |-> IF i <= Len(text) THEN text[i] ELSE "\n"]

\* the bounds check the Go runtime makes on buffer[lo:hi]
SliceInRange(lo, hi, bufLen) == 0 <= lo /\ lo <= hi /\ hi <= bufLen

\* a chunk put in front of the ones gathered so far; C11 does not hold of it
PrependChunk(list, chunk) == <<chunk>> \o list

\* chunks = append(chunks, ChromaDocument{...}); the span of the chunk is
\* kept in step with it
AppendChunk(list, chunk) == Append(list, chunk)

\* the span a chunk of the current file was cut with and the text handed to
\* the canonicalizer
SpanOf(startOffset, endOffset, raw) ==
    [file |-> filePath, start |-> startOffset, end |-> endOffset,
     bufLen |-> fileLen, raw |-> raw]

\* allsymbols.go 65-68, go_ast_parser.go 66-69: packages.Load
Load ==
    /\ ppc = "load"
    /\ \E failed \in BOOLEAN :
          IF failed
          THEN /\ err' = <<"f", "a", "i", "l", "e", "d">>
               /\ ppc' = "done"
               /\ pi' = pi
          ELSE /\ err' = err
               /\ ppc' = "pkgs"
               /\ pi' = 1
    /\ UNCHANGED <<canonVars, prog, pkgs, chunks, panicked, fi, di, si, fileLen, spans, reads>>

\* allsymbols.go 84-88, go_ast_parser.go 85-89: a package without type
\* information, syntax trees or file set is skipped
SkipPackage ==
    /\ ppc = "pkgs"
    /\ pi <= Len(pkgs)
    /\ ~pkg.ok
    /\ pi' = pi + 1
    /\ UNCHANGED <<canonVars, prog, pkgs, ppc, chunks, err, panicked, fi, di, si, fileLen,
                   spans, reads>>

\* allsymbols.go 84-90, go_ast_parser.go 85-91: the next package
EnterPackage ==
    /\ ppc = "pkgs"
    /\ pi <= Len(pkgs)
    /\ pkg.ok
    /\ fi' = 1
    /\ ppc' = "files"
    /\ UNCHANGED <<canonVars, prog, pkgs, chunks, err, panicked, pi, di, si, fileLen,
                   spans, reads>>

\* allsymbols.go 239, go_ast_parser.go 184: return chunks, nil
ReturnChunks ==
    /\ ppc = "pkgs"
    /\ pi > Len(pkgs)
    /\ ppc' = "done"
    /\ UNCHANGED <<canonVars, prog, pkgs, chunks, err, panicked, pi, fi, di, si, fileLen,
                   spans, reads>>

\* a failed read that is returned as the error of processGoProject; C8 does
\* not hold of it
ReadFileAborts ==
    /\ ppc = "files"
    /\ fi <= Len(pkgs[pi].files)
    /\ reads' = Append(reads, [file |-> pkgs[pi].files[fi].path, ok |-> FALSE, fileLen |-> 0])
    /\ chunks' = <<>>
    /\ err' = <<"r", "e", "a", "d">>
    /\ ppc' = "done"
    /\ UNCHANGED <<canonVars, prog, pkgs, panicked, pi, fi, di, si, fileLen, spans>>

\* allsymbols.go 90-96, go_ast_parser.go 91-99: the file cannot be read
ReadFileFails ==
    /\ ppc = "files"
    /\ fi <= Len(pkg.files)
    /\ reads' = Append(reads, [file |-> filePath, ok |-> FALSE, fileLen |-> 0])
    /\ fi' = fi + 1
    /\ UNCHANGED <<canonVars, prog, pkgs, ppc, chunks, err, panicked, pi, di, si, fileLen,
                   spans>>

\* allsymbols.go 90-102, go_ast_parser.go 91-106: the file is read, it is n
\* bytes long
ReadFile ==
    /\ ppc = "files"
    /\ fi <= Len(pkg.files)
    /\ \E n \in {CutLen, FullLen} :
          /\ fileLen' = n
          /\ reads' = Append(reads, [file |-> filePath, ok |-> TRUE, fileLen |-> n])
    /\ di' = 1
    /\ ppc' = "decls"
    /\ UNCHANGED <<canonVars, prog, pkgs, chunks, err, panicked, pi, fi, si, spans>>

\* the end of the loop over pkg.Syntax
EndFiles ==
    /\ ppc = "files"
    /\ fi > Len(pkg.files)
    /\ fi' = 0
    /\ pi' = pi + 1
    /\ ppc' = "pkgs"
    /\ UNCHANGED <<canonVars, prog, pkgs, chunks, err, panicked, di, si, fileLen, spans, reads>>

\* the end of the loop over file.Decls, or of ast.Inspect(file, ...)
EndDecls ==
    /\ ppc = "decls"
    /\ di > Len(file.decls)
    /\ di' = 0
    /\ fileLen' = 0
    /\ fi' = fi + 1
    /\ ppc' = "files"
    /\ UNCHANGED <<canonVars, prog, pkgs, chunks, err, panicked, pi, si, spans, reads>>

\* an invalid span that ends the traversal instead; C7 does not hold of it
ReturnOnInvalidSpan ==
    /\ ppc' = "done"
    /\ UNCHANGED <<chunks, err, panicked, di, si, spans>>

\* allsymbols.go 117-121, go_ast_parser.go 115-118: a declaration with an
\* invalid span is passed over and the traversal goes on
SkipDeclaration ==
    /\ di' = di + 1
    /\ UNCHANGED <<ppc, chunks, err, panicked, si, spans>>

\* allsymbols.go 164-168: a spec with an invalid span is passed over
SkipSpec ==
    /\ si' = si + 1
    /\ UNCHANGED <<ppc, chunks, err, panicked, di, spans>>

\* buffer[lo:hi] with lo or hi out of range: the Go runtime panics
SlicePanics ==
    /\ panicked' = TRUE
    /\ ppc' = "panic"
    /\ UNCHANGED <<chunks, err, di, si, spans>>

\* allsymbols.go 102-148: a function or method declaration
FuncDecl ==
    /\ ppc = "decls"
    /\ prog = "allsymbols"
    /\ di <= Len(file.decls)
    /\ decl.kind = "func"
    /\ LET funcDecl == decl
           startOffset == funcDecl.pos
           endOffset == funcDecl.end
           startLine == LineOf(file.text, startOffset)
           endLine == LineOf(file.text, endOffset)
           metadata == FuncMetadata(filePath, pkg.name, funcDecl, startLine, endLine)
       IN  IF InvalidSpan(startOffset, endOffset, fileLen)
           THEN SkipDeclaration
           ELSE IF ~SliceInRange(startOffset, endOffset, fileLen)
           THEN SlicePanics
           ELSE LET declChunkCode ==
                        Slice(Buffer(file.text, fileLen), startOffset, endOffset)
                IN  /\ \E finalChunkCode \in
                            ApplyResults(declChunkCode, InspectNode(funcDecl.node, file.info)) :
                          chunks' = AppendChunk(chunks,
                              [ID |-> ChunkID(filePath, startLine, endLine, funcDecl.name),
                               Document |-> finalChunkCode,
                               Metadata |-> metadata])
                    /\ spans' = AppendChunk(spans, SpanOf(startOffset, endOffset, declChunkCode))
                    /\ di' = di + 1
                    /\ UNCHANGED <<ppc, err, panicked, si>>
    /\ UNCHANGED <<canonVars, prog, pkgs, pi, fi, fileLen, reads>>

\* allsymbols.go 102-123, 150-158: a general declaration; an import
\* declaration is passed over, the specs of any other are gone through
GenDecl ==
    /\ ppc = "decls"
    /\ prog = "allsymbols"
    /\ di <= Len(file.decls)
    /\ decl.kind = "gen"
    /\ LET genDecl == decl
           startOffset == genDecl.pos
           endOffset == genDecl.end
       IN  IF InvalidSpan(startOffset, endOffset, fileLen)
           THEN SkipDeclaration
           ELSE IF ~SliceInRange(startOffset, endOffset, fileLen)
           THEN SlicePanics
           ELSE IF genDecl.tok = kwImport
           THEN /\ di' = di + 1
                /\ UNCHANGED <<ppc, chunks, err, panicked, si, spans>>
           ELSE /\ si' = 1
                /\ ppc' = "specs"
                /\ UNCHANGED <<chunks, err, panicked, di, spans>>
    /\ UNCHANGED <<canonVars, prog, pkgs, pi, fi, fileLen, reads>>

\* a loop over the specs that is left at its first spec; C9 does not hold of
\* it
SpecEndsGroup ==
    /\ ppc = "specs"
    /\ si <= Len(decl.specs)
    /\ si' = Len(decl.specs) + 1
    /\ UNCHANGED <<canonVars, prog, pkgs, ppc, chunks, err, panicked, pi, fi, di, fileLen,
                   spans, reads>>

\* allsymbols.go 158-232: one spec of the general declaration
Spec_ ==
    /\ ppc = "specs"
    /\ si <= Len(decl.specs)
    /\ LET genDecl == decl
           spec == genDecl.specs[si]
           specStartOffset == spec.pos
           specEndOffset == spec.end
           specStartLine == LineOf(file.text, specStartOffset)
           specEndLine == LineOf(file.text, specEndOffset)
           entityName == IF spec.kind = "type" THEN spec.name
                         ELSE Join(spec.names, <<",", " ">>)
           specMetadata ==
               IF spec.kind = "type"
               THEN TypeMetadata(filePath, pkg.name, genDecl.tok, spec,
                                 specStartLine, specEndLine)
               ELSE ValueMetadata(filePath, pkg.name, genDecl.tok, spec,
                                  specStartLine, specEndLine)
       IN  IF InvalidSpan(specStartOffset, specEndOffset, fileLen)
           THEN SkipSpec
           ELSE IF ~SliceInRange(specStartOffset, specEndOffset, fileLen)
           THEN SlicePanics
           ELSE LET specChunkCode ==
                        Slice(Buffer(file.text, fileLen), specStartOffset, specEndOffset)
                IN  /\ \E finalChunkCode \in
                            ApplyResults(specChunkCode, InspectNode(spec.node, file.info)) :
                          chunks' = AppendChunk(chunks,
                              [ID |-> ChunkID(filePath, specStartLine, specEndLine, entityName),
                               Document |-> finalChunkCode,
                               Metadata |-> specMetadata])
                    /\ spans' = AppendChunk(spans,
                                       SpanOf(specStartOffset, specEndOffset, specChunkCode))
                    /\ si' = si + 1
                    /\ UNCHANGED <<ppc, err, panicked, di>>
    /\ UNCHANGED <<canonVars, prog, pkgs, pi, fi, fileLen, reads>>

\* the end of the loop over genDecl.Specs
EndSpecs ==
    /\ ppc = "specs"
    /\ si > Len(decl.specs)
    /\ si' = 0
    /\ di' = di + 1
    /\ ppc' = "decls"
    /\ UNCHANGED <<canonVars, prog, pkgs, chunks, err, panicked, pi, fi, fileLen, spans, reads>>

\* go_ast_parser.go 106-178: ast.Inspect reaches a function or method
\* declaration
VisitFuncDecl ==
    /\ ppc = "decls"
    /\ prog = "go_ast_parser"
    /\ di <= Len(file.decls)
    /\ decl.kind = "func"
    /\ LET funcDecl == decl
           startOffset == funcDecl.pos
           endOffset == funcDecl.end
           startLine == LineOf(file.text, startOffset)
           endLine == LineOf(file.text, endOffset)
           metadata == FuncMetadata(filePath, pkg.name, funcDecl, startLine, endLine)
       IN  IF InvalidSpan(startOffset, endOffset, fileLen)
           THEN SkipDeclaration
           ELSE IF ~SliceInRange(startOffset, endOffset, fileLen)
           THEN SlicePanics
           ELSE LET sliced == Slice(Buffer(file.text, fileLen), startOffset, endOffset)
                IN  /\ \E rewritten \in
                            InlineResults(sliced, InspectNode(funcDecl.node, file.info)) :
                          chunks' = AppendChunk(chunks,
                              [ID |-> ChunkIDNoName(filePath, startLine, endLine),
                               Document |-> rewritten,
                               Metadata |-> metadata])
                    /\ spans' = AppendChunk(spans, SpanOf(startOffset, endOffset, sliced))
                    /\ di' = di + 1
                    /\ UNCHANGED <<ppc, err, panicked, si>>
    /\ UNCHANGED <<canonVars, prog, pkgs, pi, fi, fileLen, reads>>

\* go_ast_parser.go 106-107, 179: ast.Inspect reaches a general declaration,
\* which is no *ast.FuncDecl: nothing is done with it
VisitGenDecl ==
    /\ ppc = "decls"
    /\ prog = "go_ast_parser"
    /\ di <= Len(file.decls)
    /\ decl.kind = "gen"
    /\ di' = di + 1
    /\ UNCHANGED <<canonVars, prog, pkgs, ppc, chunks, err, panicked, pi, fi, si, fileLen,
                   spans, reads>>

LocNext ==
    \/ Load
    \/ SkipPackage
    \/ EnterPackage
    \/ ReturnChunks
    \/ ReadFileFails
    \/ ReadFile
    \/ EndFiles
    \/ EndDecls
    \/ FuncDecl
    \/ GenDecl
    \/ Spec_
    \/ EndSpecs
    \/ VisitFuncDecl
    \/ VisitGenDecl

(***************************************************************************)
(* What processGoProject is to return, and the claims about it.            *)
(***************************************************************************)
RECURSIVE Flatten(_)
Flatten(ss) == IF ss = <<>> THEN <<>> ELSE Head(ss) \o Flatten(Tail(ss))

\* the files of the packages that are gone through, in the order of pkgs
SourceFiles == Flatten([p \in 1..Len(pkgs) |-> IF pkgs[p].ok THEN pkgs[p].files ELSE <<>>])

\* packages.Load succeeded and processGoProject has returned
LoadedAndDone == ppc = "done" /\ pi > 0

\* os.ReadFile was called for the file and succeeded (ok) or failed (~ok)
HasRead(path, ok) == \E k \in 1..Len(reads) : reads[k].file = path /\ reads[k].ok = ok

\* the number of bytes os.ReadFile gave for the file
LenRead(path) == reads[CHOOSE k \in 1..Len(reads) : reads[k].file = path].fileLen

\* what a declaration is to give chunks for: itself if it is a function or
\* method; each of its specs if it is a type, var or const declaration and
\* the version handles those; outerEnd is the end of the whole declaration
DeclUnits(f, dn) ==
    LET d == f.decls[dn]
    IN  IF d.kind = "func"
        THEN <<[file |-> f.path, decl |-> dn, spec |-> 0, kind |-> "func",
                start |-> d.pos, end |-> d.end, outerEnd |-> d.end]>>
        ELSE IF IsImport(d) \/ prog = "go_ast_parser" THEN <<>>
        ELSE [i \in 1..Len(d.specs) |->
                [file |-> f.path, decl |-> dn, spec |-> i, kind |-> d.specs[i].kind,
                 start |-> d.specs[i].pos, end |-> d.specs[i].end, outerEnd |-> d.end]]

FileUnits(f) == Flatten([dn \in 1..Len(f.decls) |-> DeclUnits(f, dn)])

\* the span of the unit, and of the declaration it is in, lies in a buffer of
\* n bytes
ValidUnit(u, n) == 0 <= u.start /\ u.start <= u.end /\ u.end <= n /\ u.outerEnd <= n

\* the chunks cut for the unit
ChunksOf(u) ==
    {i \in 1..Len(spans) :
        spans[i].file = u.file /\ spans[i].start = u.start /\ spans[i].end = u.end}

\* C6: span validity.  Every chunk of the output was cut with offsets
\* 0 <= startOffset <= endOffset <= len(buffer) that are the span of a
\* function declaration or of a spec of the file; the text handed on for
\* canonicalization is buffer[startOffset:endOffset] (and is the document
\* where the file imports nothing); no slice out of range is ever taken.
C6_SpanValidity ==
    /\ ~panicked
    /\ Len(spans) = Len(chunks)
    /\ \A i \in 1..Len(spans) :
          LET s == spans[i]
          IN  /\ 0 <= s.start /\ s.start <= s.end /\ s.end <= s.bufLen
              /\ HasRead(s.file, TRUE) /\ s.bufLen = LenRead(s.file)
              /\ \E k \in 1..Len(SourceFiles) :
                    LET f == SourceFiles[k]
                    IN  /\ f.path = s.file
                        /\ \E j \in 1..Len(FileUnits(f)) :
                              FileUnits(f)[j].start = s.start /\ FileUnits(f)[j].end = s.end
                        /\ s.raw = SubSeq(Buffer(f.text, s.bufLen), s.start + 1, s.end)
                        /\ f.info = NoMap => chunks[i].Document = s.raw

\* a chunk of a function declaration and a chunk of a spec of a group have
\* been cut from the buffer of one file
C6_Witness ==
    \E i, j \in 1..Len(spans) :
        \E f \in {SourceFiles[k] : k \in 1..Len(SourceFiles)} :
            /\ f.path = spans[i].file /\ f.path = spans[j].file
            /\ \E a, b \in 1..Len(FileUnits(f)) :
                  /\ FileUnits(f)[a].kind = "func" /\ FileUnits(f)[a].start = spans[i].start
                  /\ FileUnits(f)[b].kind # "func" /\ FileUnits(f)[b].start = spans[j].start

ValidUnits(f) ==
    LET InBuffer(u) == ValidUnit(u, LenRead(f.path))
    IN  SelectSeq(FileUnits(f), InBuffer)

\* the chunks whose file_path is path
ChunksOfFile(path) == {i \in 1..Len(chunks) : chunks[i].Metadata["file_path"] = path}

\* C8: a file that cannot be read is isolated.  No chunk has the file_path of
\* a file whose read failed; when processGoProject has returned after a
\* successful packages.Load, the error is nil, every file of the packages gone
\* through has been read or tried, and each file that was read has as many
\* chunks as it has declarations and specs with a valid span.
C8_UnreadableFileIsolated ==
    /\ \A k \in 1..Len(reads) : ~reads[k].ok => ChunksOfFile(reads[k].file) = {}
    /\ LoadedAndDone =>
          /\ err = Nil
          /\ \A k \in 1..Len(SourceFiles) :
                LET f == SourceFiles[k]
                IN  /\ HasRead(f.path, TRUE) \/ HasRead(f.path, FALSE)
                    /\ HasRead(f.path, TRUE) =>
                          Cardinality(ChunksOfFile(f.path)) = Len(ValidUnits(f))

\* processGoProject has returned without error; the read of one file failed
\* and a file gone through after it has a chunk
C8_Witness ==
    /\ LoadedAndDone
    /\ err = Nil
    /\ \E j, k \in 1..Len(reads) :
          /\ j < k
          /\ ~reads[j].ok
          /\ reads[k].ok
          /\ ChunksOfFile(reads[j].file) = {}
          /\ ChunksOfFile(reads[k].file) # {}

\* the chunks cut inside the span of the declaration d of the file f
ChunksIn(f, d) ==
    {i \in 1..Len(spans) :
        spans[i].file = f.path /\ d.pos <= spans[i].start /\ spans[i].end <= d.end}

\* the name a spec is to be known by
SpecName(spec) == IF spec.kind = "type" THEN spec.name ELSE Join(spec.names, <<",", " ">>)

\* the chunk i is the chunk of the spec: cut with its span, bearing its name
\* and its lines
ChunkOfSpec(i, f, spec) ==
    /\ spans[i].start = spec.pos
    /\ spans[i].end = spec.end
    /\ chunks[i].Metadata["entity_name"] = SpecName(spec)
    /\ chunks[i].Metadata["start_line"] = LineOf(f.text, spec.pos)
    /\ chunks[i].Metadata["end_line"] = LineOf(f.text, spec.end)
    /\ spec.kind = "type" /\ spec.type.tag = "struct" =>
          chunks[i].Metadata["type_category"] = catStruct
    /\ spec.kind = "type" /\ spec.type.tag = "interface" =>
          chunks[i].Metadata["type_category"] = catInterface

\* the line ranges of the chunks i and j have no line in common
DisjointLines(i, j) ==
    \/ chunks[i].Metadata["end_line"] < chunks[j].Metadata["start_line"]
    \/ chunks[j].Metadata["end_line"] < chunks[i].Metadata["start_line"]

\* allsymbols.go has returned: of every file that was read, an import
\* declaration has no chunk, and a type, var or const declaration of n specs
\* whose span is valid has exactly n chunks, one for each spec
OneChunkPerSpec ==
    (LoadedAndDone /\ prog = "allsymbols") =>
        \A k \in 1..Len(SourceFiles) :
            LET f == SourceFiles[k]
            IN  HasRead(f.path, TRUE) =>
                    \A dn \in 1..Len(f.decls) :
                        LET d == f.decls[dn]
                        IN  /\ IsImport(d) => ChunksIn(f, d) = {}
                            /\ (d.kind = "gen" /\ ~IsImport(d) /\ d.end <= LenRead(f.path)) =>
                                  /\ Cardinality(ChunksIn(f, d)) = Len(d.specs)
                                  /\ \A n \in 1..Len(d.specs) :
                                        \E i \in ChunksIn(f, d) : ChunkOfSpec(i, f, d.specs[n])

\* C9 as stated: grouped declaration independence (the processGoProject of
\* allsymbols.go).  A group of n specs has exactly n chunks, one per spec and
\* none for the group, each with the name and the line range of its spec,
\* struct and interface types with their type_category; an import declaration
\* has no chunk; the line ranges of two chunks of one group are disjoint.
C9_GroupedSpecsDisjoint ==
    /\ OneChunkPerSpec
    /\ (LoadedAndDone /\ prog = "allsymbols") =>
          \A k \in 1..Len(SourceFiles) : \A dn \in 1..Len(SourceFiles[k].decls) :
              LET group == ChunksIn(SourceFiles[k], SourceFiles[k].decls[dn])
              IN  SourceFiles[k].decls[dn].kind = "gen" =>
                      \A i, j \in group : i # j => DisjointLines(i, j)

\* C9, amended: as above, but the line ranges of two chunks of one group are
\* in the order of the specs, the later not beginning before the line the
\* earlier ends on, and are disjoint where a line break separates the specs.
C9_GroupedSpecsInOrder ==
    /\ OneChunkPerSpec
    /\ (LoadedAndDone /\ prog = "allsymbols") =>
          \A k \in 1..Len(SourceFiles) : \A dn \in 1..Len(SourceFiles[k].decls) :
              LET f == SourceFiles[k]
                  group == ChunksIn(f, f.decls[dn])
              IN  f.decls[dn].kind = "gen" =>
                      \A i, j \in group :
                          i < j =>
                            /\ chunks[i].Metadata["end_line"] <= chunks[j].Metadata["start_line"]
                            /\ f.sep = <<"\n">> => DisjointLines(i, j)

\* allsymbols.go has returned the chunks of  type(A struct{}; B interface{})
\* written on two lines, named A and B, of the categories struct and
\* interface and of lines 2 and 3, and none for the import declaration
\* before it
C9_Witness ==
    /\ LoadedAndDone
    /\ prog = "allsymbols"
    /\ Len(chunks) = 2
    /\ chunks[1].Metadata["entity_name"] = <<"A">>
    /\ chunks[1].Metadata["type_category"] = catStruct
    /\ chunks[2].Metadata["entity_name"] = <<"B">>
    /\ chunks[2].Metadata["type_category"] = catInterface
    /\ chunks[1].Metadata["end_line"] < chunks[2].Metadata["start_line"]
    /\ \E k \in 1..Len(SourceFiles) :
          /\ Len(SourceFiles[k].decls) = 2
          /\ IsImport(SourceFiles[k].decls[1])
          /\ ChunksIn(SourceFiles[k], SourceFiles[k].decls[2]) = {1, 2}

\* C10: chunk ids are unique within a file.  No two chunks of the output with
\* the same file_path have the same ID.
C10_ChunkIdsUnique ==
    \A i, j \in 1..Len(chunks) :
        (i # j /\ chunks[i].Metadata["file_path"] = chunks[j].Metadata["file_path"])
            => chunks[i].ID # chunks[j].ID

\* the declarations and specs located in the files read so far, in the order
\* of the traversal: the files in the order of the packages and of their
\* syntax trees, in a file the declarations in their order, in a group the
\* specs in their order, those with a rejected span left out
Located ==
    Flatten([k \in 1..Len(SourceFiles) |->
                IF HasRead(SourceFiles[k].path, TRUE) THEN ValidUnits(SourceFiles[k])
                ELSE <<>>])

\* C11: output order.  The chunks gathered so far are, one for one and in
\* this order, the first of the located declarations and specs in traversal
\* order (earlier file first, then declaration order, then spec order, what
\* was skipped left out); when processGoProject has returned they are all of
\* them, each exactly once.
C11_OutputOrder ==
    /\ Len(spans) = Len(chunks)
    /\ Len(chunks) <= Len(Located)
    /\ \A i \in 1..Len(chunks) :
          /\ chunks[i].Metadata["file_path"] = Located[i].file
          /\ spans[i].file = Located[i].file
          /\ spans[i].start = Located[i].start
          /\ spans[i].end = Located[i].end
    /\ LoadedAndDone => Len(chunks) = Len(Located)

\* processGoProject has returned three chunks: two for the specs of a group
\* of the first file, in their order, and after them one for a declaration of
\* the second file
C11_Witness ==
    /\ LoadedAndDone
    /\ Len(chunks) = 3
    /\ Len(SourceFiles) = 2
    /\ Located[1].file = SourceFiles[1].path
    /\ Located[2].file = SourceFiles[1].path
    /\ Located[1].decl = Located[2].decl
    /\ Located[1].spec = 1
    /\ Located[2].spec = 2
    /\ chunks[3].Metadata["file_path"] = SourceFiles[2].path

\* the receiver type as it is written in the declaration: T or *T
RecvWritten(recv) ==
    IF recv[1].tag = "star" THEN <<"*">> \o recv[1].x.name ELSE recv[1].name

\* the function declaration the chunk i was cut for, if it was cut for one
FuncDeclsOf(i) ==
    {d \in UNION {{f.decls[dn] : dn \in 1..Len(f.decls)} :
                    f \in {g \in {SourceFiles[k] : k \in 1..Len(SourceFiles)} :
                             g.path = spans[i].file}} :
        d.kind = "func" /\ d.pos = spans[i].start /\ d.end = spans[i].end}

\* C12: method naming.  The chunk of a declaration with a receiver written T
\* (or *T) and the name Name has entity_type "method", entity_name "T.Name"
\* (or "*T.Name") and a receiver_type that is not empty; the chunk of a
\* declaration without receiver has entity_type "function", entity_name Name
\* and no receiver_type.
C12_MethodNaming ==
    \A i \in 1..Len(chunks) : \A d \in FuncDeclsOf(i) :
        LET md == chunks[i].Metadata
        IN  IF d.recv # <<>>
            THEN /\ md["entity_type"] = strMethod
                 /\ md["entity_name"] = RecvWritten(d.recv) \o Dot \o d.name
                 /\ "receiver_type" \in DOMAIN md
                 /\ md["receiver_type"] # <<>>
            ELSE /\ md["entity_type"] = strFunction
                 /\ md["entity_name"] = d.name
                 /\ "receiver_type" \notin DOMAIN md

\* the canonicalizer alone, on every input of its bounded input sets
InitCanon == CanonInit /\ LocIdle

SpecCanon == InitCanon /\ [][CanonNext]_vars

\* processGoProject, in either version
Init == LocInit /\ CanonIdle

Spec == Init /\ [][LocNext]_vars

\* processGoProject, in either version, on the projects made for the order of
\* the chunks
InitOrder == OrderInit /\ CanonIdle

SpecOrder == InitOrder /\ [][LocNext]_vars

====
